---- MODULE Spec2Model ----
(***************************************************************************)
(* GDB pretty-printer for PVM values (etc/poke-pretty-printer.py).         *)
(*                                                                         *)
(* A pvm_val is a 64-bit unsigned word.  Python integers are unbounded,    *)
(* so a word is kept as four 16-bit limbs, least significant first, and    *)
(* every Python int the printer computes from it is a limb sequence.       *)
(* Strings are sequences of string pieces, so that formatting (decimal,    *)
(* hexadecimal) is computed digit by digit.                                *)
(***************************************************************************)
EXTENDS Integers, Sequences, FiniteSets, TLC

VARIABLES val, mem, enc, printer, hint, kids

vars == <<val, mem, enc, printer, hint, kids>>

(***************************************************************************)
(* Python integers and their formatting                                    *)
(***************************************************************************)

\* The word 0.
Zero == <<0, 0, 0, 0>>

\* A small natural number as a Python int.
NatLimbs(n) == <<n % 65536, n \div 65536>>

\* x == 0 on Python ints.
IsZero(a) == \A i \in 1..Len(a) : a[i] = 0

\* Python ints compare by value, whatever the number of limbs kept.
RECURSIVE Norm(_)
Norm(a) ==
  IF a = <<>> THEN <<>>
  ELSE IF a[Len(a)] = 0 THEN Norm(SubSeq(a, 1, Len(a) - 1))
  ELSE a

\* a == n for a Python int a and an integer literal n of the source.
PyEq(a, n) == Norm(a) = Norm(NatLimbs(n))

HexChar == <<"0", "1", "2", "3", "4", "5", "6", "7",
             "8", "9", "a", "b", "c", "d", "e", "f">>

Hex4(l) == <<l \div 4096, (l \div 256) % 16, (l \div 16) % 16, l % 16>>

RECURSIVE AllHex(_)
AllHex(a) == IF a = <<>> THEN <<>> ELSE AllHex(Tail(a)) \o Hex4(Head(a))

RECURSIVE StripZeros(_)
StripZeros(ds) ==
  IF ds = <<>> THEN <<>>
  ELSE IF Head(ds) = 0 THEN StripZeros(Tail(ds))
  ELSE ds

\* f"{v:0x}": lower-case hexadecimal, no padding (the 0 flag has no width).
HexStr(a) ==
  LET ds == StripZeros(AllHex(a))
  IN  IF ds = <<>> THEN <<"0">> ELSE [i \in 1..Len(ds) |-> HexChar[ds[i] + 1]]

\* Division of a Python int by ten, limb by limb from the top.
RECURSIVE DivLimbs(_, _, _)
DivLimbs(a, i, r) ==
  IF i = 0 THEN [q |-> <<>>, r |-> r]
  ELSE LET cur  == r * 65536 + a[i]
           rest == DivLimbs(a, i - 1, cur % 10)
       IN  [q |-> Append(rest.q, cur \div 10), r |-> rest.r]

RECURSIVE DecDigits(_)
DecDigits(a) ==
  IF IsZero(a) THEN <<>>
  ELSE LET d == DivLimbs(a, Len(a), 0)
       IN  Append(DecDigits(d.q), HexChar[d.r + 1])

\* f"{x}" of a non-negative Python int.
PyStr(a) == IF IsZero(a) THEN <<"0">> ELSE DecDigits(a)

\* Magnitude of a negative integer n >= -2^31, without leaving 32 bits.
MagLimbs(n) ==
  LET m  == -(n + 1)
      lo == m % 65536
      hi == m \div 65536
  IN  IF lo = 65535 THEN <<0, hi + 1>> ELSE <<lo + 1, hi>>

\* f"{x}" of an integer that fits a machine int (a gdb.Value field, a width).
IntStr(n) == IF n < 0 THEN <<"-">> \o PyStr(MagLimbs(n)) ELSE PyStr(NatLimbs(n))

(***************************************************************************)
(* Bit operations of the source on a 64-bit word                           *)
(***************************************************************************)

\* v & 7
Tag(v) == v[1] % 8

\* v & ~7
ClearTag(v) == [v EXCEPT ![1] = v[1] - (v[1] % 8)]

\* v >> 32
Shr32(v) == <<v[3], v[4]>>

\* ((v >> 3) & 0x1F) + 1
Ibits(v) == ((v[1] \div 8) % 32) + 1

(***************************************************************************)
(* Memory of the inferior and gdb.Value                                    *)
(***************************************************************************)

\* The contents of a boxed object, by the fields the printers read.  header
\* is the first word (the box type code); the other fields are those of the
\* struct the printer casts the address to.
Cell0 ==
  [header |-> Zero, value |-> 0, size_minus_one |-> 0, code |-> 0,
   nallocated |-> 0, nelem |-> 0, elems |-> Zero, env_up |-> Zero]

\* A memory snapshot maps the readable addresses to their objects; reading
\* any other address raises gdb.MemoryError.
Readable(m, ptr) == ptr \in DOMAIN m

\* A gdb.Value handed to a printer: its type name, its integer value (a
\* pvm_val) or address (a struct), and the struct's contents.
Value(ty, w, obj) == [ty |-> ty, w |-> w, obj |-> obj]

\* What children() yields.  Every child is yielded under the name "", so a
\* child is kept as its second component: a string, a gdb.Value obtained by
\* a cast of ptr, a field of a struct, or an array of n pvm_val.
Str(t) == [k |-> "str", s |-> t, ty |-> "", at |-> Zero, n |-> 0]
Val(ty, at) == [k |-> "val", s |-> <<>>, ty |-> ty, at |-> at, n |-> 0]
Fld(ty, name, at) == [k |-> "field", s |-> <<name>>, ty |-> ty, at |-> at, n |-> 0]
Arr(at, n) == [k |-> "array", s |-> <<>>, ty |-> "pvm_val", at |-> at, n |-> n]

\* One evaluation the printer asks of gdb: a parse_and_eval of a cast of an
\* address ("eval"), a field of a struct ("field"), or a member of the type
\* descriptor's union ("val").
E(op, what, at) == [op |-> op, what |-> what, at |-> at]

\* The result of a generator run to its end: what it yielded, what it
\* evaluated, and the exception that ended it ("" for none).
Gen(out, reads) == [out |-> out, reads |-> reads, err |-> ""]

\* The result of a call: the exception it raised ("" for none) or its value.
Ret(x) == [raised |-> "", value |-> x]
Raise(e) == [raised |-> e, value |-> <<>>]

(***************************************************************************)
(* The printers of the typed structs                                       *)
(***************************************************************************)

RECURSIVE SctFields(_, _)
SctFields(fs, at) ==
  IF fs = <<>> THEN <<>>
  ELSE <<Str(<<Head(fs)>>), Fld("pvm_struct", Head(fs), at)>>
       \o SctFields(Tail(fs), at)

RECURSIVE FieldReads(_, _)
FieldReads(fs, at) ==
  IF fs = <<>> THEN <<>>
  ELSE <<E("field", Head(fs), at)>> \o FieldReads(Tail(fs), at)

PVMSctPP_children(sct) ==
  LET fs == <<"type", "nfields", "nmethods", "fields", "methods">>
  IN  Gen(SctFields(fs, sct.w), FieldReads(fs, sct.w))

\* f(fname) of PVMTypPP.children: the name, then that member of typ["val"].
TypF(typ, fname) ==
  Gen(<<Str(<<fname>>), Fld("val", fname, typ.w)>>,
      <<E("field", "code", typ.w), E("field", "val", typ.w),
        E("val", fname, typ.w)>>)

TypOnly(typ, name) ==
  Gen(<<Str(<<name>>)>>,
      <<E("field", "code", typ.w), E("field", "val", typ.w)>>)

\* A slip PVMTypPP.children could have: the closure case reading the struct
\* member of the union.
PVMTypPP_children_cls_as_sct(typ) ==
  LET typc == typ.obj.code
  IN  IF typc = 0 THEN TypF(typ, "integral")
      ELSE IF typc = 1 THEN TypOnly(typ, "string")
      ELSE IF typc = 2 THEN TypF(typ, "array")
      ELSE IF typc = 3 THEN TypF(typ, "sct")
      ELSE IF typc = 4 THEN TypF(typ, "off")
      ELSE IF typc = 5 THEN TypF(typ, "sct")
      ELSE IF typc = 6 THEN TypOnly(typ, "void")
      ELSE TypOnly(typ, "InvalidType")

PVMTypPP_children(typ) ==
  LET typc == typ.obj.code
  IN  IF typc = 0 THEN TypF(typ, "integral")
      ELSE IF typc = 1 THEN TypOnly(typ, "string")
      ELSE IF typc = 2 THEN TypF(typ, "array")
      ELSE IF typc = 3 THEN TypF(typ, "sct")
      ELSE IF typc = 4 THEN TypF(typ, "off")
      ELSE IF typc = 5 THEN TypF(typ, "cls")
      ELSE IF typc = 6 THEN TypOnly(typ, "void")
      ELSE TypOnly(typ, "InvalidType")

PVMOffPP_children(off) ==
  Gen(<<Str(<<"magnitude">>), Fld("pvm_off", "magnitude", off.w),
        Str(<<"type">>), Fld("pvm_off", "type", off.w)>>,
      <<E("field", "magnitude", off.w), E("field", "type", off.w)>>)

PVMStrPP_children(s) ==
  Gen(<<Str(<<"data">>), Fld("pvm_string", "data", s.w)>>,
      <<E("field", "data", s.w)>>)

\* A slip cast_ptr_to_array_of_pvm_val could have: array(n), the array type
\* of bounds 0..n, of n + 1 elements.
cast_ptr_to_array_upper_n(pvm_val_ptr, n) ==
  IF ~(n > 0) THEN [Arr(pvm_val_ptr, 0) EXCEPT !.k = "AssertionError"]
  ELSE Arr(pvm_val_ptr, n + 1)

\* array(n - 1) is the array type of bounds 0..n-1, of n elements.  The
\* assertion is the function's first statement.
cast_ptr_to_array_of_pvm_val(pvm_val_ptr, n) ==
  IF ~(n > 0) THEN [Arr(pvm_val_ptr, 0) EXCEPT !.k = "AssertionError"]
  ELSE Arr(pvm_val_ptr, (n - 1) + 1)

PVMIarPP_children(iar) ==
  LET elems  == iar.obj.elems
      nelems == iar.obj.nelem
      head   == <<Str(<<"nallocated">>), Fld("pvm_iarray", "nallocated", iar.w),
                  Str(<<"nelem">>), Fld("pvm_iarray", "nelem", iar.w)>>
      rds    == <<E("field", "elems", iar.w), E("field", "nelem", iar.w),
                  E("field", "nallocated", iar.w), E("field", "nelem", iar.w)>>
      arr    == cast_ptr_to_array_of_pvm_val(elems, nelems)
  IN  IF nelems = 0 THEN Gen(head, rds)
      ELSE IF arr.k = "AssertionError"
        THEN [out |-> head \o <<Str(<<"elems">>)>>, reads |-> rds,
              err |-> "AssertionError"]
      ELSE Gen(head \o <<Str(<<"elems">>), arr>>, rds)

(***************************************************************************)
(* PVMValPrettyPrinter                                                     *)
(***************************************************************************)

\* The dictionary of _kind for a box header, with its default.
BoxKind(type_code) ==
  IF PyEq(type_code, 2) THEN <<"LONG">>
  ELSE IF PyEq(type_code, 3) THEN <<"ULONG">>
  ELSE IF PyEq(type_code, 8) THEN <<"STR">>
  ELSE IF PyEq(type_code, 9) THEN <<"OFF">>
  ELSE IF PyEq(type_code, 10) THEN <<"ARR">>
  ELSE IF PyEq(type_code, 11) THEN <<"SCT">>
  ELSE IF PyEq(type_code, 12) THEN <<"TYP">>
  ELSE IF PyEq(type_code, 13) THEN <<"CLS">>
  ELSE IF PyEq(type_code, 14) THEN <<"IAR">>
  ELSE IF PyEq(type_code, 15) THEN <<"ENV">>
  ELSE IF PyEq(type_code, 16) THEN <<"PRG">>
  ELSE <<"BOX:">> \o PyStr(type_code)

\* The dictionary of _kind for a tag-7 word, with its default.
NullKind(v) ==
  IF PyEq(v, 7) THEN <<"PVM_NULL">>
  ELSE IF PyEq(v, 23) THEN <<"GC:INVALID_OBJECT">>
  ELSE IF PyEq(v, 39) THEN <<"GC:UNINITIALIZED_OBJECT">>
  ELSE IF PyEq(v, 55) THEN <<"GC:BROKEN_HEART">>
  ELSE <<"Garbage(NULL):0x">> \o HexStr(v)

\* _kind reads the box header outside any try: a gdb.MemoryError leaves it.
PVMVal_kind(v, m) ==
  LET tag == Tag(v)
      ptr == ClearTag(v)
  IN  IF tag = 0 THEN Ret(<<"INT">>)
      ELSE IF tag = 1 THEN Ret(<<"UINT">>)
      ELSE IF tag = 6
        THEN IF Readable(m, ptr) THEN Ret(BoxKind(m[ptr].header))
             ELSE Raise("gdb.MemoryError")
      ELSE IF tag = 7 THEN Ret(NullKind(v))
      ELSE Ret(<<"Garbage:0x">> \o HexStr(v))

\* A slip display_hint could have: "OFF" listed among the map kinds.
PVMVal_display_hint_off_map(v, m) ==
  LET k == PVMVal_kind(v, m)
  IN  IF k.raised # "" THEN k
      ELSE IF k.value \in {<<"ARR">>, <<"SCT">>, <<"TYP">>, <<"CLS">>,
                           <<"IAR">>, <<"ENV">>, <<"PRG">>, <<"STR">>,
                           <<"OFF">>}
        THEN Ret(<<"map">>)
      ELSE Ret(<<"array">>)

PVMVal_display_hint(v, m) ==
  LET k == PVMVal_kind(v, m)
  IN  IF k.raised # "" THEN k
      ELSE IF k.value \in {<<"ARR">>, <<"SCT">>, <<"TYP">>, <<"CLS">>,
                           <<"IAR">>, <<"ENV">>, <<"PRG">>, <<"STR">>}
        THEN Ret(<<"map">>)
      ELSE Ret(<<"array">>)

\* The tag-0 and tag-1 branches: the payload is v >> 32 of the unsigned
\* word, the width is the 5-bit field plus one.
ImmChildren(v, ty) ==
  LET ival  == Shr32(v)
      ibits == Ibits(v)
  IN  Gen(<<Str(PyStr(ival) \o <<" as ", ty, "<">> \o IntStr(ibits) \o <<">">>)>>,
          <<>>)

LongChildren(ptr, c, ty) ==
  Gen(<<Str(IntStr(c.value) \o <<" as ", ty, "<">>
            \o IntStr(c.size_minus_one + 1) \o <<">">>)>>,
      <<E("eval", "*(pvm_long)", ptr), E("field", "value", ptr),
        E("field", "size_minus_one", ptr)>>)

CastChildren(ptr, name, cast) ==
  Gen(<<Str(<<name>>), Val(cast, ptr)>>, <<E("eval", cast, ptr)>>)

ClsChildren(ptr) ==
  Gen(<<Str(<<"name">>), Fld("pvm_cls", "name", ptr),
        Str(<<"env">>), Fld("pvm_cls", "env", ptr),
        Str(<<"program">>), Fld("pvm_cls", "program", ptr)>>,
      <<E("eval", "*(pvm_cls)", ptr), E("field", "name", ptr),
        E("field", "env", ptr), E("field", "program", ptr)>>)

\* A slip the ENV branch could have: the parent frame evaluated at once,
\* in place of the env_up field.
EnvChildrenEager(ptr, env) ==
  Gen(<<Str(<<"vars">>), Fld("pvm_env_", "vars", ptr),
        Str(<<"env_up">>), Val("*(pvm_env_)", env.env_up)>>,
      <<E("eval", "*(pvm_env_)", ptr), E("field", "vars", ptr),
        E("field", "env_up", ptr), E("eval", "*(pvm_env_)", env.env_up)>>)

\* The ENV branch: env is the frame at ptr, and its two fields are yielded.
\* env_up is yielded as the field's value; the branch follows no link.
EnvChildren(ptr, env) ==
  Gen(<<Str(<<"vars">>), Fld("pvm_env_", "vars", ptr),
        Str(<<"env_up">>), Fld("pvm_env_", "env_up", ptr)>>,
      <<E("eval", "*(pvm_env_)", ptr), E("field", "vars", ptr),
        E("field", "env_up", ptr)>>)

\* A slip the dispatch could have: the PRG branch as the last else.
UnknownBoxAsProgram(ptr, type_code) ==
  CastChildren(ptr, "program", "*(pvm_program_)")

\* The last else of the dispatch: a header that is none of the codes.
UnknownBox(ptr, type_code) ==
  Gen(<<Str(<<"BOXED(">> \o PyStr(type_code) \o <<")>">>)>>, <<>>)

\* A generator that runs another one after some evaluations of its own.
After(rds, g) == [g EXCEPT !.reads = rds \o g.reads]

\* The dispatch on type_code, once the header is read.
BoxDispatch(ptr, c) ==
  LET type_code == c.header
  IN  IF PyEq(type_code, 2) THEN LongChildren(ptr, c, "long")
      ELSE IF PyEq(type_code, 3) THEN LongChildren(ptr, c, "ulong")
      ELSE IF PyEq(type_code, 8) THEN CastChildren(ptr, "string", "*(pvm_string)")
      ELSE IF PyEq(type_code, 9) THEN CastChildren(ptr, "off", "*(pvm_off)")
      ELSE IF PyEq(type_code, 10) THEN CastChildren(ptr, "array", "*(pvm_array)")
      ELSE IF PyEq(type_code, 11) THEN CastChildren(ptr, "struct", "(pvm_struct)")
      ELSE IF PyEq(type_code, 12)
        THEN After(<<E("eval", "*(pvm_type)", ptr)>>,
                   PVMTypPP_children(Value("pvm_type", ptr, c)))
      ELSE IF PyEq(type_code, 13) THEN ClsChildren(ptr)
      ELSE IF PyEq(type_code, 14)
        THEN After(<<E("eval", "*(pvm_iarray)", ptr)>>,
                   PVMIarPP_children(Value("pvm_iarray", ptr, c)))
      ELSE IF PyEq(type_code, 15) THEN EnvChildren(ptr, c)
      ELSE IF PyEq(type_code, 16) THEN CastChildren(ptr, "program", "*(pvm_program_)")
      ELSE UnknownBox(ptr, type_code)

\* The tag-6 branch: the header read is inside try; on gdb.MemoryError
\* type_code is the string BadPtr(0x...), equal to no code, so the last
\* else yields it.
BoxChildren(ptr, m) ==
  LET hdr == <<E("eval", "*(uintptr_t*)", ptr)>>
  IN  IF Readable(m, ptr) THEN After(hdr, BoxDispatch(ptr, m[ptr]))
      ELSE Gen(<<Str(<<"BOXED(">> \o <<"BadPtr(0x">> \o HexStr(ptr) \o <<")">>
                     \o <<")>">>)>>, hdr)

\* The tag-7 branch.
NullChildren(v) ==
  IF PyEq(v, 7) THEN Gen(<<Str(<<"PMV_NULL">>)>>, <<>>)
  ELSE IF PyEq(v, 23) THEN Gen(<<Str(<<"GC:INVALID_OBJECT">>)>>, <<>>)
  ELSE IF PyEq(v, 39) THEN Gen(<<Str(<<"GC:UNINITIALIZED_OBJECT">>)>>, <<>>)
  ELSE IF PyEq(v, 55) THEN Gen(<<Str(<<"GC:BROKEN_HEART">>)>>, <<>>)
  ELSE Gen(<<Str(<<"Garbage(NULL):0x">> \o HexStr(v))>>, <<>>)

PVMVal_children(v, m) ==
  LET tag == Tag(v)
  IN  IF tag = 0 THEN ImmChildren(v, "int")
      ELSE IF tag = 1 THEN ImmChildren(v, "uint")
      ELSE IF tag = 6 THEN BoxChildren(ClearTag(v), m)
      ELSE IF tag = 7 THEN NullChildren(v)
      ELSE Gen(<<Str(<<"Garbage:0x">> \o HexStr(v))>>, <<>>)

(***************************************************************************)
(* PVMPrettyPrinter: the lookup by type name                               *)
(***************************************************************************)

PVMPrettyPrinter_call(typename) ==
  IF typename = "pvm_val" THEN "PVMValPrettyPrinter"
  ELSE IF typename = "pvm_struct" THEN "PVMSctPP"
  ELSE IF typename = "pvm_type" THEN "PVMTypPP"
  ELSE IF typename = "pvm_off" THEN "PVMOffPP"
  ELSE IF typename = "pvm_string" THEN "PVMStrPP"
  ELSE IF typename = "pvm_iarray" THEN "PVMIarPP"
  ELSE "None"

\* display_hint of the printer p made for the value x.
DisplayHintOf(p, x, m) ==
  IF p = "PVMValPrettyPrinter" THEN PVMVal_display_hint(x.w, m)
  ELSE Ret(<<"map">>)

\* children of the printer p made for the value x, run to its end.
ChildrenOf(p, x, m) ==
  IF p = "PVMValPrettyPrinter" THEN PVMVal_children(x.w, m)
  ELSE IF p = "PVMSctPP" THEN PVMSctPP_children(x)
  ELSE IF p = "PVMTypPP" THEN PVMTypPP_children(x)
  ELSE IF p = "PVMOffPP" THEN PVMOffPP_children(x)
  ELSE IF p = "PVMStrPP" THEN PVMStrPP_children(x)
  ELSE PVMIarPP_children(x)

(***************************************************************************)
(* The encoder of the immediate layout (the VM's side)                     *)
(***************************************************************************)

\* Tag 0 in bits 0..2, w-1 in bits 3..7, the 32-bit two's complement of v
\* in bits 32..63.
Encode(v, w) == <<(w - 1) * 8, 0, v % 65536, (v \div 65536) % 65536>>

SignedMin(w) == IF w = 32 THEN -2147483647 - 1 ELSE -(2 ^ (w - 1))
SignedMax(w) == IF w = 32 THEN 2147483647 ELSE (2 ^ (w - 1)) - 1

(***************************************************************************)
(* The values and memory snapshots presented                               *)
(***************************************************************************)

MaxHeader == 64
MaxTypCode == 8
MaxNelem == 3
MaxLimit == 2

\* Three box addresses; every other address is unreadable.
A1 == <<64, 0, 0, 0>>
A2 == <<128, 0, 0, 0>>
A3 == <<192, 0, 0, 0>>

\* The tag-6 word of a box address.
BoxWord(ptr) == [ptr EXCEPT ![1] = ptr[1] + 6]

NoMem == [a \in {} |-> Cell0]

NoEnc == [v |-> 0, w |-> 0]

Header(h) == [Cell0 EXCEPT !.header = h]

\* Every low byte (all tags, all width fields, the four sentinel words)
\* under a few settings of the other 56 bits.
Uppers ==
  {<<0, 0, 0, 0>>, <<1, 0, 0, 0>>, <<0, 1, 0, 0>>, <<0, 0, 5, 0>>,
   <<0, 0, 65535, 65535>>, <<0, 0, 0, 32768>>}

RawWords == {<<lb + 256 * u[1], u[2], u[3], u[4]>> : lb \in 0..255, u \in Uppers}

\* Box headers: every small code, and two words that agree with a code on
\* their low bits only.
Headers ==
  {<<h, 0, 0, 0>> : h \in 0..MaxHeader}
    \cup {<<12, 1, 0, 0>>, <<2, 0, 0, 32768>>}

Cells ==
  {Header(h) : h \in Headers}
    \cup {[Header(<<h, 0, 0, 0>>) EXCEPT !.value = x, !.size_minus_one = s] :
            h \in {2, 3}, x \in {-1, 0, 5}, s \in {0, 31, 63}}
    \cup {[Header(<<12, 0, 0, 0>>) EXCEPT !.code = c] : c \in -1..MaxTypCode}
    \cup {[Header(<<14, 0, 0, 0>>) EXCEPT !.nelem = n, !.nallocated = MaxNelem,
                                           !.elems = A2] : n \in 0..MaxNelem}

Env(up) == [Header(<<15, 0, 0, 0>>) EXCEPT !.env_up = up]

\* Chains of environment frames starting at A1: ended by a null or an
\* unreadable parent, or cyclic.
EnvMems ==
  {(A1 :> Env(Zero)),
   (A1 :> Env(A1)),
   (A1 :> Env(A2)),
   (A1 :> Env(A2)) @@ (A2 :> Env(Zero)),
   (A1 :> Env(A2)) @@ (A2 :> Env(A3)) @@ (A3 :> Env(Zero)),
   (A1 :> Env(A2)) @@ (A2 :> Env(A3)) @@ (A3 :> Env(A1)),
   (A1 :> Env(A2)) @@ (A2 :> Env(A2))}

Samples(w) ==
  {x \in {SignedMin(w), SignedMax(w), -1, 0, 1, 5} :
     SignedMin(w) <= x /\ x <= SignedMax(w)}

TypedValues ==
  {Value("pvm_type", A1, [Cell0 EXCEPT !.code = c]) : c \in -1..MaxTypCode}
    \cup {Value("pvm_iarray", A1,
                [Cell0 EXCEPT !.nelem = n, !.nallocated = a, !.elems = A2]) :
            n \in 0..MaxNelem, a \in {MaxNelem}}
    \cup {Value(ty, A1, Cell0) :
            ty \in {"pvm_struct", "pvm_off", "pvm_string", "pvm_env", "int"}}

Input(x, m, e) == [val |-> x, mem |-> m, enc |-> e]

Inputs ==
  {Input(Value("pvm_val", v, Cell0), NoMem, NoEnc) : v \in RawWords}
    \cup {Input(Value("pvm_val", BoxWord(A1), Cell0), (A1 :> c), NoEnc) :
            c \in Cells}
    \cup {Input(Value("pvm_val", BoxWord(A1), Cell0), m, NoEnc) : m \in EnvMems}
    \cup {Input(Value("pvm_val", Encode(i[1], i[2]), Cell0), NoMem,
                [v |-> i[1], w |-> i[2]]) :
            i \in UNION {Samples(w) \X {w} : w \in 1..32}}
    \cup {Input(x, (A1 :> x.obj), NoEnc) : x \in TypedValues}

(***************************************************************************)
(* The presentation of one value                                           *)
(***************************************************************************)

NotCalled == [called |-> FALSE, raised |-> "", value |-> <<>>]

NotRun == [called |-> FALSE, out |-> <<>>, reads |-> <<>>, err |-> ""]

\* gdb holds a value of the inferior, a memory snapshot, and no printer yet.
Init ==
  /\ \E i \in Inputs : val = i.val /\ mem = i.mem /\ enc = i.enc
  /\ printer = ""
  /\ hint = NotCalled
  /\ kids = NotRun

\* gdb asks the registered PVMPrettyPrinter for a printer of the value.
Call ==
  /\ printer = ""
  /\ printer' = PVMPrettyPrinter_call(val.ty)
  /\ UNCHANGED <<val, mem, enc, hint, kids>>

\* gdb calls the printer's display_hint.
DisplayHint ==
  /\ printer \notin {"", "None"}
  /\ ~hint.called
  /\ LET r == DisplayHintOf(printer, val, mem)
     IN  hint' = [called |-> TRUE, raised |-> r.raised, value |-> r.value]
  /\ UNCHANGED <<val, mem, enc, printer, kids>>

\* gdb runs the printer's children generator to its end.
Children ==
  /\ printer \notin {"", "None"}
  /\ ~kids.called
  /\ LET g == ChildrenOf(printer, val, mem)
     IN  kids' = [called |-> TRUE, out |-> g.out, reads |-> g.reads,
                  err |-> g.err]
  /\ UNCHANGED <<val, mem, enc, printer, hint>>

Next == Call \/ DisplayHint \/ Children

Spec == Init /\ [][Next]_vars

(***************************************************************************)
(* Vocabulary of the properties                                            *)
(***************************************************************************)

IsVal == printer = "PVMValPrettyPrinter"

\* The box address of the presented word, and whether it is a box whose
\* header can be read.
Ptr == ClearTag(val.w)
IsBox == IsVal /\ Tag(val.w) = 6
BadBox == IsBox /\ ~Readable(mem, Ptr)
GoodBox == IsBox /\ Readable(mem, Ptr)
BoxHeaderIs(h) == GoodBox /\ mem[Ptr].header = <<h, 0, 0, 0>>

Contains(t, piece) == \E i \in 1..Len(t) : t[i] = piece
Follows(t, a, b) == \E i \in 1..(Len(t) - 1) : t[i] = a /\ t[i + 1] = b

SentinelWords == {<<7, 0, 0, 0>>, <<23, 0, 0, 0>>, <<39, 0, 0, 0>>, <<55, 0, 0, 0>>}

SentinelLabels ==
  {<<"PVM_NULL">>, <<"PMV_NULL">>, <<"GC:INVALID_OBJECT">>,
   <<"GC:UNINITIALIZED_OBJECT">>, <<"GC:BROKEN_HEART">>}

GarbagePrefixes == {"Garbage:0x", "Garbage(NULL):0x"}

\* The outcome kind the tag layout assigns to a word.
ExpectedClass(v) ==
  IF Tag(v) = 0 THEN "signed"
  ELSE IF Tag(v) = 1 THEN "unsigned"
  ELSE IF Tag(v) = 6 THEN "boxed"
  ELSE IF v \in SentinelWords THEN "sentinel"
  ELSE "garbage"

\* The outcome kind a children() result shows.
ClassOfOut(out) ==
  IF out = <<>> THEN "none"
  ELSE LET t == out[1].s
       IN  IF Len(out) = 1 /\ out[1].k = "str" /\ t[1] \in GarbagePrefixes
             THEN "garbage"
           ELSE IF Len(out) = 1 /\ out[1].k = "str" /\ t \in SentinelLabels
             THEN "sentinel"
           ELSE IF Len(out) = 1 /\ out[1].k = "str" /\ Follows(t, " as ", "int")
             THEN "signed"
           ELSE IF Len(out) = 1 /\ out[1].k = "str" /\ Follows(t, " as ", "uint")
             THEN "unsigned"
           ELSE "boxed"

\* The outcome kind a _kind() label names.
ClassOfKind(label) ==
  IF label = <<"INT">> THEN "signed"
  ELSE IF label = <<"UINT">> THEN "unsigned"
  ELSE IF label[1] \in GarbagePrefixes THEN "garbage"
  ELSE IF label \in SentinelLabels THEN "sentinel"
  ELSE "boxed"

\* The evaluations of a run other than the read of the box header.
VariantReads(reads) ==
  {i \in 1..Len(reads) : reads[i] # E("eval", "*(uintptr_t*)", Ptr)}

(***************************************************************************)
(* C1                                                                      *)
(***************************************************************************)

\* C1: for every 64-bit word, decoding by children and by _kind ends
\* normally and yields the one outcome kind of the word's tag (signed,
\* unsigned, boxed, sentinel, garbage); a garbage outcome carries the word's
\* hexadecimal value.
C1_TagDecodeTotal ==
  IsVal =>
    /\ kids.called =>
         /\ kids.err = ""
         /\ ClassOfOut(kids.out) = ExpectedClass(val.w)
         /\ ExpectedClass(val.w) = "garbage" =>
              \E p \in GarbagePrefixes : kids.out[1].s = <<p>> \o HexStr(val.w)
    /\ hint.called =>
         LET k == PVMVal_kind(val.w, mem)
         IN  /\ k.raised = ""
             /\ ClassOfKind(k.value) = ExpectedClass(val.w)
             /\ ExpectedClass(val.w) = "garbage" =>
                  \E p \in GarbagePrefixes : k.value = <<p>> \o HexStr(val.w)

(***************************************************************************)
(* C2                                                                      *)
(***************************************************************************)

\* C2: the tag-0 branch of children, run on the encoding of (v, w), shows
\* the value v and the width w.
C2_ImmediateRoundTrip ==
  (IsVal /\ enc.w # 0 /\ kids.called) =>
    kids.out = <<Str(IntStr(enc.v) \o <<" as ", "int", "<">>
                     \o IntStr(enc.w) \o <<">">>)>>

(***************************************************************************)
(* C3                                                                      *)
(***************************************************************************)

\* C3: for a tag-6 word whose header cannot be read, display_hint and
\* children both end normally, and children yields one placeholder that
\* names the bad pointer.
C3_BadPointerNeverRaises ==
  BadBox =>
    /\ hint.called => hint.raised = ""
    /\ kids.called =>
         /\ kids.err = ""
         /\ Len(kids.out) = 1
         /\ kids.out[1].k = "str"
         /\ \E i \in 1..Len(kids.out[1].s) :
              /\ kids.out[1].s[i] = "BadPtr(0x"
              /\ SubSeq(kids.out[1].s, i + 1, i + Len(HexStr(Ptr))) = HexStr(Ptr)

(***************************************************************************)
(* C4                                                                      *)
(***************************************************************************)

RelocatedLabels == {"GC:BROKEN_HEART", "relocated/unavailable", "BROKEN_HEART"}

\* C4, as stated: a box whose header is 0x37 presents as a relocated
\* (broken heart) object, and nothing but the header is read.
C4_BrokenHeartRelocated ==
  (BoxHeaderIs(55) /\ kids.called) =>
    /\ \E i \in 1..Len(kids.out) :
         \E l \in RelocatedLabels : Contains(kids.out[i].s, l)
    /\ VariantReads(kids.reads) = {}

\* C4, amended: a box whose header is 0x37 presents as a box of unknown
\* type, the placeholder BOXED(55)> (kind BOX:55, hint "array"), and
\* nothing but the header is read.
C4_BrokenHeartUnknownBox ==
  BoxHeaderIs(55) =>
    /\ kids.called =>
         /\ kids.err = ""
         /\ kids.out = <<Str(<<"BOXED(", "5", "5", ")>">>)>>
         /\ VariantReads(kids.reads) = {}
         /\ Len(kids.reads) = 1
    /\ hint.called => hint.raised = "" /\ hint.value = <<"array">>

C4_Witness == BoxHeaderIs(55) /\ kids.called /\ hint.called

(***************************************************************************)
(* C5                                                                      *)
(***************************************************************************)

\* The hint the presentation policy gives a word: the empty string is the
\* scalar hint (display_hint returning None), "array" the sequence hint.
PolicyHint ==
  IF ~IsBox \/ BadBox THEN <<>>
  ELSE IF \E h \in {11, 12, 9, 13, 15} : BoxHeaderIs(h) THEN <<"map">>
  ELSE IF \E h \in {10, 14} : BoxHeaderIs(h) THEN <<"array">>
  ELSE <<>>

\* C5, as stated: the hint follows the presentation policy.
C5_HintPolicy ==
  (IsVal /\ hint.called) => hint.raised = "" /\ hint.value = PolicyHint

\* C5, amended: the hint is a fixed function of the variant: "map" for a
\* readable box of type String, Array, Struct, TypeDescriptor, Closure,
\* IncrementalArray, Environment or Program, "array" for every other word
\* that is not a box with an unreadable header (immediates, sentinels,
\* garbage, Long, ULong, Offset, unknown box types), and no hint at all for
\* a box with an unreadable header, where gdb.MemoryError leaves
\* display_hint.  No word gets the scalar hint.
C5_HintByVariant ==
  (IsVal /\ hint.called) =>
    IF BadBox THEN hint.raised = "gdb.MemoryError"
    ELSE /\ hint.raised = ""
         /\ hint.value =
              IF \E h \in {8, 10, 11, 12, 13, 14, 15, 16} : BoxHeaderIs(h)
                THEN <<"map">>
              ELSE <<"array">>

C5_Witness == BoxHeaderIs(9) /\ hint.called /\ hint.value = <<"array">>

(***************************************************************************)
(* C6                                                                      *)
(***************************************************************************)

\* The incremental array presented, directly or as a box.
IsIar == printer = "PVMIarPP" \/ BoxHeaderIs(14)
IarNelem == IF printer = "PVMIarPP" THEN val.obj.nelem ELSE mem[Ptr].nelem

\* The elements children() shows, and the entries that are neither a field
\* name, a field nor the elements: truncation markers.
Shown(out) ==
  IF \E i \in 1..Len(out) : out[i].k = "array"
    THEN (CHOOSE i \in 1..Len(out) : out[i].k = "array")
  ELSE 0
ShownCount(out) == IF Shown(out) = 0 THEN 0 ELSE out[Shown(out)].n
Markers(out) ==
  {i \in 1..Len(out) :
     /\ out[i].k \notin {"array", "field"}
     /\ out[i].s \notin {<<"nallocated">>, <<"nelem">>, <<"elems">>}}

\* C6, as stated: under a presentation limit L, more than L elements show
\* as L elements and one marker, at most L elements show whole.
C6_IarTruncation ==
  (IsIar /\ kids.called) =>
    \A L \in 1..MaxLimit :
      IF IarNelem > L
        THEN ShownCount(kids.out) = L /\ Cardinality(Markers(kids.out)) = 1
      ELSE ShownCount(kids.out) = IarNelem /\ Markers(kids.out) = {}

\* C6, amended: no presentation limit exists: every incremental array
\* shows all nelem elements, as one array of exactly nelem values after the
\* name "elems" (no such entry when nelem = 0), and no marker ever appears.
C6_IarShowsAll ==
  (IsIar /\ kids.called) =>
    /\ kids.err = ""
    /\ ShownCount(kids.out) = IarNelem
    /\ Markers(kids.out) = {}
    /\ Cardinality({i \in 1..Len(kids.out) : kids.out[i].k = "array"})
         = (IF IarNelem = 0 THEN 0 ELSE 1)
    /\ IarNelem > 0 =>
         /\ kids.out[Len(kids.out)].k = "array"
         /\ kids.out[Len(kids.out) - 1] = Str(<<"elems">>)

C6_Witness ==
  IsIar /\ kids.called /\ IarNelem > MaxLimit /\ ShownCount(kids.out) = IarNelem

(***************************************************************************)
(* C7                                                                      *)
(***************************************************************************)

\* The frames on the chain of parent links from p, while readable.
RECURSIVE Chain(_, _, _)
Chain(m, p, seen) ==
  IF p \in seen \/ ~Readable(m, p) THEN seen
  ELSE Chain(m, m[p].env_up, seen \cup {p})

\* The chain from p comes back to a frame already met.
RECURSIVE Cyclic(_, _, _)
Cyclic(m, p, seen) ==
  IF p \in seen THEN TRUE
  ELSE IF ~Readable(m, p) THEN FALSE
  ELSE Cyclic(m, m[p].env_up, seen \cup {p})

IsEnv == BoxHeaderIs(15)

Truncated(out) ==
  \E i \in 1..Len(out) :
    out[i].k = "truncated" \/ Contains(out[i].s, "truncated")

\* C7, as stated: an environment whose chain of parents is cyclic (so
\* longer than any depth guard) presents with a truncated node.
C7_EnvDepthTruncation ==
  (IsEnv /\ kids.called /\ Cyclic(mem, Ptr, {})) =>
    kids.err = "" /\ Truncated(kids.out)

\* C7, amended: there is no depth guard and no truncated node: children
\* of an environment ends after yielding exactly vars and env_up of the one
\* frame presented, env_up as the field itself; it reads that frame only,
\* whatever the length of the chain of parents and whether or not it is
\* cyclic.
C7_EnvOneFrame ==
  (IsEnv /\ kids.called) =>
    /\ kids.err = ""
    /\ kids.out = <<Str(<<"vars">>), Fld("pvm_env_", "vars", Ptr),
                    Str(<<"env_up">>), Fld("pvm_env_", "env_up", Ptr)>>
    /\ \A i \in 1..Len(kids.reads) : kids.reads[i].at = Ptr
    /\ ~Truncated(kids.out)

C7_Witness ==
  /\ IsEnv /\ kids.called /\ Cyclic(mem, Ptr, {})
  /\ Cardinality(Chain(mem, Ptr, {})) > 2

(***************************************************************************)
(* C8                                                                      *)
(***************************************************************************)

\* The type descriptor presented, directly or as a box.
IsTyp == printer = "PVMTypPP" \/ BoxHeaderIs(12)
TypCode == IF printer = "PVMTypPP" THEN val.obj.code ELSE mem[Ptr].code

\* The members of the descriptor's union a run read.
SubFields(reads) ==
  {reads[i].what : i \in {j \in 1..Len(reads) : reads[j].op = "val"}}

\* C8: the type descriptor's children read exactly the member of the union
\* its code selects (0 integral, 2 array, 3 sct, 4 off, 5 cls; none for 1
\* and 6); every other code yields the placeholder InvalidType, reads no
\* member and raises nothing.
C8_TypOneSubfield ==
  (IsTyp /\ kids.called) =>
    /\ kids.err = ""
    /\ SubFields(kids.reads) =
         (IF TypCode = 0 THEN {"integral"}
          ELSE IF TypCode = 2 THEN {"array"}
          ELSE IF TypCode = 3 THEN {"sct"}
          ELSE IF TypCode = 4 THEN {"off"}
          ELSE IF TypCode = 5 THEN {"cls"}
          ELSE {})
    /\ \A i \in 1..Len(kids.out) :
         kids.out[i].k = "field" => {kids.out[i].s[1]} = SubFields(kids.reads)
    /\ TypCode \notin 0..6 => kids.out = <<Str(<<"InvalidType">>)>>

C8_Witness ==
  /\ IsTyp /\ kids.called /\ TypCode \notin 0..6
  /\ kids.out = <<Str(<<"InvalidType">>)>>

(***************************************************************************)
(* C9                                                                      *)
(***************************************************************************)

\* C9: _kind and children agree on a word: one ends normally exactly when
\* the other does, they assign it the same outcome kind, and they name a
\* sentinel or a garbage word with the same label.
C9_KindChildrenAgree ==
  (IsVal /\ hint.called /\ kids.called) =>
    LET k == PVMVal_kind(val.w, mem)
    IN  /\ (k.raised = "") <=> (kids.err = "")
        /\ k.raised = "" =>
             /\ ClassOfKind(k.value) = ClassOfOut(kids.out)
             /\ ClassOfKind(k.value) \in {"sentinel", "garbage"} =>
                  kids.out = <<Str(k.value)>>

(***************************************************************************)
(* C10                                                                     *)
(***************************************************************************)

\* C10: when the hint is "map", children yields an even number of entries,
\* alternating a key label (a string) and a value.
C10_MapChildrenAlternate ==
  (hint.called /\ hint.value = <<"map">> /\ kids.called) =>
    /\ Len(kids.out) % 2 = 0
    /\ \A i \in 1..Len(kids.out) : (i % 2 = 1) => kids.out[i].k = "str"

====
